---- MODULE Spec2Model ----
(***************************************************************************)
(* Model of the jarvis-realtime voice pipeline: the session store          *)
(* (SessionManager), the wake/interrupt word detector (WakeWordService),   *)
(* the per-session streaming engine (Pipeline) and the message dispatch of *)
(* the transport (WebSocketHandler).                                       *)
(*                                                                         *)
(* Node runs every handler to its next await of real I/O without           *)
(* interleaving, so one action is one such run: the handling of an inbound *)
(* message up to the first await, or the continuation of a suspended turn  *)
(* from the completion of an upstream call to the next await.              *)
(*                                                                         *)
(* Text is a sequence of one-character strings.                            *)
(***************************************************************************)
EXTENDS Integers, Sequences, FiniteSets, TLC

\* evaluate e once and apply F to its value
Bind(e, F(_)) == CHOOSE r \in {F(x) : x \in {e}} : TRUE

(***************************************************************************)
(* Bounds of the model.                                                    *)
(***************************************************************************)
\* handler invocations that suspend on upstream I/O (audio.end / transcript)
MaxTasks == 2
\* frames one audio buffer may hold
MaxFrames == 2
\* tokens one chatStream may yield
MaxTokens == 1
\* milliseconds between two readings of the clock, and the last reading
ClockStepMs == 500
MaxNowMs == 3000

(***************************************************************************)
(* Text helpers (JavaScript String methods).                               *)
(***************************************************************************)
Whitespace == {" ", "\n"}

\* the upper-case letters the inputs use, with their lower-case forms
UpperToLower == [c \in {"J"} |-> "j"]

toLowerChar(c) == IF c \in DOMAIN UpperToLower THEN UpperToLower[c] ELSE c

toLowerCase(s) == [i \in 1..Len(s) |-> toLowerChar(s[i])]

RECURSIVE trimStart(_)
trimStart(s) ==
  IF s # <<>> /\ Head(s) \in Whitespace THEN trimStart(Tail(s)) ELSE s

RECURSIVE trimEnd(_)
trimEnd(s) ==
  IF s # <<>> /\ s[Len(s)] \in Whitespace
  THEN trimEnd(SubSeq(s, 1, Len(s) - 1)) ELSE s

trim(s) == trimEnd(trimStart(s))

\* s.substring(k) with a 0-based start k
substring(s, k) == SubSeq(s, k + 1, Len(s))

startsWith(s, p) == Len(p) <= Len(s) /\ SubSeq(s, 1, Len(p)) = p

\* s.indexOf(p): 0-based index of the first occurrence, -1 when absent
indexOf(s, p) ==
  LET hits == {k \in 0..(Len(s) - Len(p)) : SubSeq(s, k + 1, k + Len(p)) = p}
  IN IF hits = {} THEN -1 ELSE CHOOSE k \in hits : \A h \in hits : k <= h

includes(s, p) == indexOf(s, p) # -1

\* s.split(' '): the pieces between single spaces (empty pieces kept)
RECURSIVE split(_)
split(s) ==
  LET k == indexOf(s, <<" ">>)
  IN IF k = -1 THEN <<s>>
     ELSE <<SubSeq(s, 1, k)>> \o split(substring(s, k + 1))

\* pieces.join(' ')
RECURSIVE join(_)
join(pieces) ==
  IF pieces = <<>> THEN <<>>
  ELSE IF Len(pieces) = 1 THEN pieces[1]
  ELSE pieces[1] \o <<" ">> \o join(Tail(pieces))

\* pieces.slice(0, n)
sliceTo(pieces, n) == SubSeq(pieces, 1, IF n < Len(pieces) THEN n ELSE Len(pieces))

(***************************************************************************)
(* WakeWordService: classification of a transcript.                        *)
(***************************************************************************)
wakeWords ==
  << <<"j","a","r","v","i","s">>,
     <<"h","e","y"," ","j","a","r","v","i","s">>,
     <<"o","k"," ","j","a","r","v","i","s">> >>

interruptWords ==
  << <<"s","t","o","p">>,
     <<"c","a","n","c","e","l">>,
     <<"w","a","i","t">>,
     <<"h","o","l","d"," ","o","n">>,
     <<"p","a","u","s","e">>,
     <<"n","e","v","e","r"," ","m","i","n","d">> >>

\* sensitivity 0.7 as the fraction SensitivityNum / SensitivityDen
SensitivityNum == 7
SensitivityDen == 10

Min3(a, b, c) ==
  IF a <= b /\ a <= c THEN a ELSE IF b <= c THEN b ELSE c

\* one row of the edit-distance matrix from the row above it; entry j of a
\* row (0-based) is kept at index j + 1
RECURSIVE NextRow(_, _, _, _)
NextRow(prev, c, str2, cur) ==
  IF Len(cur) = Len(str2) + 1 THEN cur
  ELSE LET j == Len(cur)
       IN NextRow(prev, c, str2,
                  Append(cur, Min3(prev[j + 1] + 1,
                                   cur[j] + 1,
                                   prev[j] + (IF c = str2[j] THEN 0 ELSE 1))))

RECURSIVE LevRows(_, _, _, _)
LevRows(str1, str2, i, prev) ==
  IF i > Len(str1) THEN prev
  ELSE LevRows(str1, str2, i + 1, NextRow(prev, str1[i], str2, <<i>>))

levenshtein(str1, str2) ==
  LevRows(str1, str2, 1, [j \in 1..(Len(str2) + 1) |-> j - 1])[Len(str2) + 1]

\* calculateSimilarity as the fraction <<numerator, denominator>>
calculateSimilarity(str1, str2) ==
  IF str1 = str2 THEN <<1, 1>>
  ELSE IF Len(str1) = 0 \/ Len(str2) = 0 THEN <<0, 1>>
  ELSE LET maxLength == IF Len(str1) > Len(str2) THEN Len(str1) ELSE Len(str2)
       IN <<maxLength - levenshtein(str1, str2), maxLength>>

\* similarity >= this.config.sensitivity
atLeastSensitivity(sim) == sim[1] * SensitivityDen >= SensitivityNum * sim[2]

NoDetection == [type |-> "none", word |-> <<>>]

interruptMatches(text, word) ==
  LET wordLower == toLowerCase(word)
      firstWords == join(sliceTo(split(text), Len(split(word))))
  IN \/ includes(text, wordLower)
     \/ atLeastSensitivity(calculateSimilarity(firstWords, wordLower))

detectInterruptWord(text) ==
  LET hits == {k \in 1..Len(interruptWords) : interruptMatches(text, interruptWords[k])}
  IN IF hits = {} THEN NoDetection
     ELSE [type |-> "interrupt",
           word |-> interruptWords[CHOOSE k \in hits : \A h \in hits : k <= h]]

wakeMatches(text, word) ==
  LET wordLower == toLowerCase(word)
  IN \/ startsWith(text, wordLower)
     \/ atLeastSensitivity(calculateSimilarity(split(text)[1], wordLower))

detectWakeWord(text) ==
  LET hits == {k \in 1..Len(wakeWords) : wakeMatches(text, wakeWords[k])}
  IN IF hits = {} THEN NoDetection
     ELSE [type |-> "wake",
           word |-> wakeWords[CHOOSE k \in hits : \A h \in hits : k <= h]]

\* a classification that looks for wake words before interrupt words
classify_WakeFirst(text) ==
  LET normalizedText == trim(toLowerCase(text))
      wakeDetection == detectWakeWord(normalizedText)
  IN IF wakeDetection.type # "none" THEN wakeDetection
     ELSE detectInterruptWord(normalizedText)

\* the classification checkTranscript makes once the debounce check has passed
classify(text) ==
  LET normalizedText == trim(toLowerCase(text))
      interruptDetection == detectInterruptWord(normalizedText)
  IN IF interruptDetection.type # "none" THEN interruptDetection
     ELSE detectWakeWord(normalizedText)

\* config.debounceMs, in milliseconds
debounceMs == 1000

\* a debounce check that restarts the window on every suppressed call
checkTranscriptAt_Extends(last, at, text) ==
  IF last # -1 /\ at - last < debounceMs
  THEN [lastDetectionTime |-> at, detection |-> NoDetection]
  ELSE Bind(classify(text), LAMBDA d :
         [lastDetectionTime |-> IF d.type = "none" THEN last ELSE at,
          detection |-> d])

\* checkTranscript with the clock: last is lastDetection.getTime() (-1 when
\* lastDetection is null), at is Date.now(); gives the new lastDetection and
\* the value returned (NoDetection for null)
checkTranscriptAt(last, at, text) ==
  IF last # -1 /\ at - last < debounceMs
  THEN [lastDetectionTime |-> last, detection |-> NoDetection]
  ELSE Bind(classify(text), LAMBDA d :
         [lastDetectionTime |-> IF d.type = "none" THEN last ELSE at,
          detection |-> d])

\* .replace(/^[,.\s]+/, '')
RECURSIVE stripLeadingPunct(_)
stripLeadingPunct(s) ==
  IF s # <<>> /\ Head(s) \in ({",", "."} \cup Whitespace)
  THEN stripLeadingPunct(Tail(s)) ELSE s

fillers ==
  << <<"p","l","e","a","s","e">>,
     <<"c","a","n"," ","y","o","u">>,
     <<"c","o","u","l","d"," ","y","o","u">>,
     <<"w","o","u","l","d"," ","y","o","u">> >>

\* .replace(/^(please|can you|could you|would you)\s+/i, '')
stripFiller(s) ==
  LET lower == toLowerCase(s)
      hits == {k \in 1..Len(fillers) :
                 /\ startsWith(lower, fillers[k])
                 /\ Len(s) > Len(fillers[k])
                 /\ s[Len(fillers[k]) + 1] \in Whitespace}
  IN IF hits = {} THEN s
     ELSE LET k == CHOOSE h \in hits : \A g \in hits : h <= g
          IN trimStart(substring(s, Len(fillers[k])))

extractCommandAfterWakeWord(text, wakeWord) ==
  LET index == indexOf(toLowerCase(text), toLowerCase(wakeWord))
  IN IF index = -1 THEN text
     ELSE trim(stripFiller(stripLeadingPunct(
            trim(substring(text, index + Len(wakeWord))))))

(***************************************************************************)
(* Inputs.                                                                 *)
(***************************************************************************)
SessionIds == {"s1"}

\* byte lengths of inbound audio frames
FrameSizes == {8000}

\* processAudioEnd: utterances shorter than this are skipped
MinUtteranceBytes == 16000

T_plain == <<"h","i">>
T_wakeCommand == <<"j","a","r","v","i","s"," ","g","o">>
T_wakeOnly == <<"J","a","r","v","i","s">>
T_stop == <<"s","t","o","p">>
T_blank == <<" ">>
T_wakeStop == <<"j","a","r","v","i","s"," ","s","t","o","p">>
T_stopWake == <<"s","t","o","p"," ","j","a","r","v","i","s">>
T_WakeWait == <<"J","a","r","v","i","s"," ","w","a","i","t">>

\* texts a client transcript message or the transcription upstream may carry
Transcripts == {T_plain, T_wakeCommand, T_stop}

\* texts the calls of checkTranscript are made with
WakeTexts == {T_plain, T_wakeCommand, T_stop, T_wakeStop, T_stopWake, T_WakeWait}

\* chunks the generation stream may yield
Tokens == { <<"a">>, <<"b", ".">> }

\* the disclaimer modifyResponse appends, as one opaque element
Disclaimer == <<"<disclaimer>">>

\* outcomes of one VerificationClient.verify call
VerifyOutcomes == {"verified", "modified", "unverified", "throw"}

\* outcomes of one TTSService.synthesizeStream call
TtsOutcomes == {"chunk", "error"}

SessionStates == {"idle", "listening", "processing", "speaking", "interrupted"}

TaskIds == 1..MaxTasks

(***************************************************************************)
(* State.                                                                  *)
(***************************************************************************)
VARIABLES
  sessions,            \* SessionManager.sessions: session id -> state, "absent" = no entry
  mintedSessionIds,    \* session ids createSession has already handed out
  audioBuffers,        \* Pipeline.audioBuffers: session id -> frame lengths
  activeResponseIds,   \* Pipeline.activeResponseIds: session id -> id, 0 = none
  arrays,              \* the Message[] arrays allocated by processWithLLM
  conversationHistory, \* Pipeline.conversationHistory: conversation -> array, 0 = none
  lastDetection,       \* WakeWordService.lastDetection, relative to now
  tasks,               \* suspended invocations of processAudioEnd / processTranscript
  emitted,             \* the events the last step emitted, in order
  transitions,         \* the updateSessionState calls of the last step, in order
  interruptReturned,   \* what SessionManager.interrupt returned in the last step
  interruptedResponses, \* history: responses in flight at a successful interrupt
  now,                 \* Date.now() in milliseconds
  lastDetectionTime,   \* WakeWordService.lastDetection.getTime(), -1 = null
  nextText,            \* the text of the next checkTranscript call
  returned,            \* history: the last checkTranscript call and its result
  lastPositive,        \* history: when a call last returned a classification
  storeSessions,       \* SessionManager.sessions as a Map: entries in insertion order
  storeConversations,  \* the keys of SessionManager.conversations
  cleaned,             \* what the last cleanupStaleSessions call returned, -1 = no call
  engineCall,          \* one VerificationEngine.verify call: its inputs and its result
  client,              \* one VerificationClient.verify call: configuration and position
  upstream,            \* one upstream request of a turn with its attempts
  breaker,             \* one CircuitBreaker with the execute calls in flight
  limiter,             \* one RateLimiter with the acquire calls in flight
  callers              \* history: which session called checkTranscript, and what a
                       \* service of its own would have returned

vars == <<sessions, mintedSessionIds, audioBuffers, activeResponseIds, arrays,
          conversationHistory, lastDetection, tasks, emitted, transitions,
          interruptReturned, interruptedResponses,
          now, lastDetectionTime, nextText, returned, lastPositive,
          storeSessions, storeConversations, cleaned,
          engineCall, client, upstream, breaker, limiter, callers>>

\* the objects one process shares between all its sessions: the breaker and
\* the limiter of a service, and the callers of the one WakeWordService
sharedVars == <<breaker, limiter, callers>>

\* the services looked at on their own, one call at a time
serviceVars == <<engineCall, client, upstream>>

\* the session store on its own, with timestamps and several sessions; the
\* pipeline actions see one session and its state only
storeVars == <<storeSessions, storeConversations, cleaned>>

\* the state of the wake-word service with its clock; the pipeline actions
\* see it folded into lastDetection ("recent" = inside the debounce window)
wakeVars == <<now, lastDetectionTime, nextText, returned, lastPositive>>

FreeTask ==
  [pc |-> "free", sessionId |-> "none", responseId |-> 0, history |-> 0,
   fullResponse |-> <<>>, sentenceBuffer |-> <<>>, isSpeaking |-> FALSE,
   yielded |-> 0, dispatched |-> <<>>]

DoneTask == [FreeTask EXCEPT !.pc = "done"]

\* the program state as one record, threaded through the handlers' steps
Cur ==
  [sessions |-> sessions, audioBuffers |-> audioBuffers,
   activeResponseIds |-> activeResponseIds, arrays |-> arrays,
   conversationHistory |-> conversationHistory, lastDetection |-> lastDetection,
   tasks |-> tasks, emitted |-> <<>>, transitions |-> <<>>,
   interruptReturned |-> "none", interruptedResponses |->
     {r \in interruptedResponses : tasks[r].pc # "done"}]

\* an array is reachable from the history map or from a suspended turn
Referenced(m, t) ==
  \/ \E s \in SessionIds : m.conversationHistory[s] = t
  \/ \E u \in TaskIds : m.tasks[u].history = t

\* the step's result becomes the next state; unreachable arrays are collected
Commit(m) ==
  \E r \in {m} :
    /\ sessions' = r.sessions
    /\ audioBuffers' = r.audioBuffers
    /\ activeResponseIds' = r.activeResponseIds
    /\ arrays' = [t \in TaskIds |-> IF Referenced(r, t) THEN r.arrays[t] ELSE <<>>]
    /\ conversationHistory' = r.conversationHistory
    /\ lastDetection' = r.lastDetection
    /\ tasks' = r.tasks
    /\ emitted' = r.emitted
    /\ transitions' = r.transitions
    /\ interruptReturned' = r.interruptReturned
    /\ interruptedResponses' = r.interruptedResponses
    /\ UNCHANGED wakeVars
    /\ UNCHANGED storeVars
    /\ UNCHANGED serviceVars
    /\ UNCHANGED sharedVars

InitPipeline ==
  /\ sessions = [s \in SessionIds |-> "absent"]
  /\ mintedSessionIds = {}
  /\ audioBuffers = [s \in SessionIds |-> <<>>]
  /\ activeResponseIds = [s \in SessionIds |-> 0]
  /\ arrays = [t \in TaskIds |-> <<>>]
  /\ conversationHistory = [s \in SessionIds |-> 0]
  /\ lastDetection = "none"
  /\ tasks = [t \in TaskIds |-> FreeTask]
  /\ emitted = <<>>
  /\ transitions = <<>>
  /\ interruptReturned = "none"
  /\ interruptedResponses = {}

\* no call of checkTranscript was made yet
NoCall ==
  [type |-> "none", word |-> <<>>, text |-> <<>>, at |-> -1,
   inWindow |-> FALSE, afterSuppressed |-> FALSE]

\* the wake-word service after construction: lastDetection is null
InitWakeWord ==
  /\ now = 0
  /\ lastDetectionTime = -1
  /\ returned = NoCall
  /\ lastPositive = -1

\* the session store after construction: two empty maps
InitStore ==
  /\ storeSessions = <<>>
  /\ storeConversations = {}
  /\ cleaned = -1

\* no call of a service is under way
NoEngineCall == [claims |-> <<>>, context |-> <<>>, done |-> FALSE]

NoClientCall == [pc |-> "idle"]

NoRequest == [pc |-> "idle"]

\* the options TTSService gives its CircuitBreaker
failureThreshold == 5
resetTimeoutMs == 30000

\* new RateLimiter(50, 60000, 10)
tokensPerInterval == 50
intervalMs == 60000
burstSize == 10

\* execute / acquire calls that may be in flight at once
MaxCalls == 2

CallIds == 1..MaxCalls

\* the sessions whose transcripts reach the one WakeWordService
WakeSessions == {"A", "B"}

NoBreakerStep ==
  [op |-> "none", call |-> 0, invoked |-> FALSE, stateBefore |-> "closed",
   probePending |-> FALSE, wasProbe |-> FALSE, sinceFailure |-> 0]

\* a CircuitBreaker after its constructor, no call made; probe, consecutive
\* and step are history: the call that went half-open, the failures since
\* the last success, and what the last step did
NewBreaker ==
  [state |-> "closed", failureCount |-> 0, lastFailureTime |-> 0,
   pending |-> {}, probe |-> 0, consecutive |-> 0, step |-> NoBreakerStep]

\* a RateLimiter after its constructor at time 0. tokens is kept multiplied
\* by intervalMs, so that refill stays in whole numbers; wakeAt[c] is the time
\* the sleep of call c ends, -1 when c is not inside acquire
NewLimiter ==
  [tokens |-> burstSize * intervalMs, lastRefillTime |-> 0,
   wakeAt |-> [c \in CallIds |-> -1]]

\* no call of checkTranscript made yet. History of the last call: the
\* session it was made for, what it returned (actual), what a service that
\* saw this session's calls only would have returned (expected), and the
\* lastDetection such a service would hold for each session (own)
NoCaller ==
  [session |-> "none", text |-> <<>>, actual |-> NoDetection,
   expected |-> NoDetection, own |-> [s \in WakeSessions |-> -1]]

InitShared ==
  /\ breaker = NewBreaker
  /\ limiter = NewLimiter
  /\ callers = NoCaller

InitServices ==
  /\ engineCall = NoEngineCall
  /\ client = NoClientCall
  /\ upstream = NoRequest

Init ==
  /\ InitPipeline
  /\ InitWakeWord
  /\ nextText = <<>>
  /\ InitStore
  /\ InitShared
  /\ InitServices

(***************************************************************************)
(* SessionManager.                                                         *)
(***************************************************************************)
hasSession(m, s) == m.sessions[s] # "absent"

stateOf(m, s) == m.sessions[s]

updateSessionState(m0, s, newState) ==
  Bind(m0, LAMBDA m :
    IF ~hasSession(m, s) THEN m
    ELSE [m EXCEPT !.sessions[s] = newState,
                   !.transitions = Append(@, [sessionId |-> s, from |-> m.sessions[s],
                                              to |-> newState])])

\* an interrupt that also takes a listening session
sessionInterrupt_Listening(m0, s) ==
  Bind(m0, LAMBDA m :
    IF ~hasSession(m, s) THEN [m |-> m, result |-> FALSE]
    ELSE IF stateOf(m, s) \in {"listening", "processing", "speaking"}
    THEN [m |-> updateSessionState(m, s, "interrupted"), result |-> TRUE]
    ELSE [m |-> m, result |-> FALSE])

\* SessionManager.interrupt: the new state and the value returned
sessionInterrupt(m0, s) ==
  Bind(m0, LAMBDA m :
    IF ~hasSession(m, s) THEN [m |-> m, result |-> FALSE]
    ELSE IF stateOf(m, s) \in {"processing", "speaking"}
    THEN [m |-> updateSessionState(m, s, "interrupted"), result |-> TRUE]
    ELSE [m |-> m, result |-> FALSE])

(***************************************************************************)
(* Pipeline: helpers.                                                      *)
(***************************************************************************)
\* an emitted event: its type, its session, the payload's responseId (0 when
\* it has none) and the payload's reason, which only session.interrupt has
Event(type, s, rid) ==
  [type |-> type, sessionId |-> s, responseId |-> rid,
   reason |-> IF type = "session.interrupt" THEN "user" ELSE ""]

emit(m, type, s, rid) == [m EXCEPT !.emitted = Append(@, Event(type, s, rid))]

isSessionInterrupted(m, s) ==
  ~hasSession(m, s) \/ m.sessions[s] = "interrupted"

\* WakeWordService.checkTranscript: debounce, classification, lastDetection
checkTranscript(m0, text) ==
  Bind(m0, LAMBDA m :
    IF m.lastDetection = "recent" THEN [m |-> m, detection |-> NoDetection]
    ELSE Bind(classify(text), LAMBDA d :
           IF d.type = "none" THEN [m |-> m, detection |-> d]
           ELSE [m |-> [m EXCEPT !.lastDetection = "recent"], detection |-> d]))

\* the responses of session s whose turn is suspended in processWithLLM
InFlightPcs == {"llm", "tts", "ttsTail", "verify"}

inFlight(m, s) ==
  {m.tasks[t].responseId : t \in {u \in TaskIds : /\ m.tasks[u].pc \in InFlightPcs
                                                  /\ m.tasks[u].sessionId = s}}

\* history variables: the value returned, the responses it interrupted
noteInterrupt(m0, s, result) ==
  Bind(m0, LAMBDA m :
    [m EXCEPT !.interruptReturned = IF result THEN "true" ELSE "false",
              !.interruptedResponses = IF result THEN @ \cup inFlight(m, s) ELSE @])

\* the old Pipeline.interrupt, which emits no tts.stop
interrupt_NoStop(m0, s) ==
  Bind(m0, LAMBDA m :
    Bind(sessionInterrupt(m, s), LAMBDA r :
      Bind(noteInterrupt(r.m, s, r.result), LAMBDA m1 :
        IF r.result THEN emit(m1, "session.interrupt", s, 0) ELSE m1)))

\* Pipeline.interrupt
interrupt(m0, s) ==
  Bind(m0, LAMBDA m :
    LET wasPlaying == stateOf(m, s) = "speaking"
    IN Bind(sessionInterrupt(m, s), LAMBDA r :
         Bind(noteInterrupt(r.m, s, r.result), LAMBDA m1 :
           IF r.result
           THEN emit(IF wasPlaying THEN emit(m1, "tts.stop", s, 0) ELSE m1,
                     "session.interrupt", s, 0)
           ELSE m1)))

(***************************************************************************)
(* Pipeline: audio intake.                                                 *)
(***************************************************************************)
RECURSIVE totalBytes(_)
totalBytes(frames) ==
  IF frames = <<>> THEN 0 ELSE Head(frames) + totalBytes(Tail(frames))

setTask(m, t, rec) == [m EXCEPT !.tasks[t] = rec]

processAudioChunk(m0, s, size) ==
  Bind(m0, LAMBDA m :
    IF ~hasSession(m, s) THEN m
    ELSE IF stateOf(m, s) = "interrupted" THEN m
    ELSE LET m1 == updateSessionState(m, s, "listening")
             m2 == [m1 EXCEPT !.audioBuffers[s] = Append(@, size)]
         IN emit(m2, "audio.chunk", s, 0))

\* an audio.end that submits every non-empty buffer to transcription
processAudioEnd_NoMinimum(m0, t, s) ==
  Bind(m0, LAMBDA m :
    IF ~hasSession(m, s) THEN m
    ELSE IF Len(m.audioBuffers[s]) = 0 THEN m
    ELSE setTask(emit(updateSessionState([m EXCEPT !.audioBuffers[s] = <<>>],
                                         s, "processing"),
                      "audio.end", s, 0),
                 t, [FreeTask EXCEPT !.pc = "transcribing", !.sessionId = s]))

\* processAudioEnd up to its await of transcribeAudio; t is the invocation
processAudioEnd(m0, t, s) ==
  Bind(m0, LAMBDA m :
    IF ~hasSession(m, s) THEN m
    ELSE IF Len(m.audioBuffers[s]) = 0 THEN m
    ELSE LET audioLength == totalBytes(m.audioBuffers[s])
             m1 == [m EXCEPT !.audioBuffers[s] = <<>>]
         IN IF audioLength < MinUtteranceBytes
            THEN updateSessionState(m1, s, "idle")
            ELSE setTask(emit(updateSessionState(m1, s, "processing"),
                              "audio.end", s, 0),
                         t, [FreeTask EXCEPT !.pc = "transcribing", !.sessionId = s]))

(***************************************************************************)
(* Pipeline: generation, sentence streaming, verification.                 *)
(***************************************************************************)
Terminators == {".", "!", "?", "\n"}

\* index of the first sentence terminator, 0 when there is none
firstTerminator(buf) ==
  LET hits == {k \in 1..Len(buf) : buf[k] \in Terminators}
  IN IF hits = {} THEN 0 ELSE CHOOSE k \in hits : \A h \in hits : k <= h

\* last index of the whitespace run that follows index k
RECURSIVE whitespaceEnd(_, _)
whitespaceEnd(buf, k) ==
  IF k < Len(buf) /\ buf[k + 1] \in Whitespace THEN whitespaceEnd(buf, k + 1) ELSE k

\* sentenceBuffer.match(/^(.*?[.!?\n])\s*/)
sentenceMatch(buf) ==
  LET k == firstTerminator(buf)
  IN IF k = 0 THEN [matched |-> FALSE, sentence |-> <<>>, rest |-> buf]
     ELSE [matched |-> TRUE,
           sentence |-> SubSeq(buf, 1, k),
           rest |-> substring(buf, whitespaceEnd(buf, k))]

\* streamSentenceToTTS: whether the checks before synthesizeStream pass
synthesisStarts(m, s, responseId) ==
  ~isSessionInterrupted(m, s) /\ m.activeResponseIds[s] = responseId

\* the callback of the old synthesizeResponse, which checks no response id
onChunk_NoIdCheck(m0, s, responseId) ==
  Bind(m0, LAMBDA m :
    IF isSessionInterrupted(m, s) THEN m
    ELSE emit(m, "tts.chunk", s, responseId))

\* the onChunk callback of streamSentenceToTTS
onChunk(m0, s, responseId) ==
  Bind(m0, LAMBDA m :
    IF isSessionInterrupted(m, s) \/ m.activeResponseIds[s] # responseId THEN m
    ELSE emit(m, "tts.chunk", s, responseId))

\* processWithLLM from its entry to the first await of the generation stream
processWithLLM(m0, t, s, text) ==
  Bind(m0, LAMBDA m :
    IF ~hasSession(m, s) \/ stateOf(m, s) = "interrupted" THEN m
    ELSE LET h == IF m.conversationHistory[s] # 0 THEN m.conversationHistory[s] ELSE t
             m1 == [m EXCEPT !.activeResponseIds[s] = t,
                             !.arrays[h] = Append(@, [role |-> "user", content |-> text])]
             m2 == updateSessionState(emit(m1, "llm.start", s, t), s, "speaking")
         IN setTask(m2, t, [FreeTask EXCEPT !.pc = "llm", !.sessionId = s,
                                            !.responseId = t, !.history = h]))

\* lines after the tail flush: start verification, or leave processWithLLM
verifyOrReturn(m0, t) ==
  Bind(m0, LAMBDA m :
    LET task == m.tasks[t]
    IN IF ~isSessionInterrupted(m, task.sessionId) /\ task.fullResponse # <<>>
       THEN setTask(m, t, [task EXCEPT !.pc = "verify"])
       ELSE setTask(m, t, DoneTask))

\* a loop exit that drops the unterminated tail
streamEnd_NoFlush(m0, t) == verifyOrReturn(m0, t)

\* the generation stream is exhausted (or the loop was left): flush the tail.
\* dispatched collects the texts streamSentenceToTTS is called with
streamEnd(m0, t) ==
  Bind(m0, LAMBDA m :
    LET task == m.tasks[t]
        s == task.sessionId
        flush == ~isSessionInterrupted(m, s) /\ trim(task.sentenceBuffer) # <<>>
        task1 == IF flush
                 THEN [task EXCEPT !.dispatched = @ \o trim(task.sentenceBuffer)]
                 ELSE task
    IN IF flush /\ synthesisStarts(m, s, task.responseId)
       THEN setTask(m, t, [task1 EXCEPT !.pc = "ttsTail"])
       ELSE verifyOrReturn(setTask(m, t, task1), t))

\* one iteration of the for-await loop, for a chunk the stream yielded
streamChunk(m0, t, chunk) ==
  Bind(m0, LAMBDA m :
    LET task == m.tasks[t]
        s == task.sessionId
    IN IF isSessionInterrupted(m, s) THEN streamEnd(m, t)
       ELSE LET buf == task.sentenceBuffer \o chunk
                match == sentenceMatch(buf)
                completeSentence == trim(match.sentence)
                starts == match.matched /\ completeSentence # <<>> /\ ~task.isSpeaking
                m1 == emit(m, "llm.chunk", s, task.responseId)
                m2 == IF starts THEN emit(m1, "tts.start", s, task.responseId) ELSE m1
                called == match.matched /\ completeSentence # <<>>
                dispatch == called /\ synthesisStarts(m2, s, task.responseId)
            IN setTask(m2, t,
                       [task EXCEPT !.fullResponse = @ \o chunk,
                                    !.sentenceBuffer = match.rest,
                                    !.isSpeaking = @ \/ starts,
                                    !.yielded = @ + 1,
                                    !.dispatched = IF called THEN @ \o completeSentence
                                                   ELSE @,
                                    !.pc = IF dispatch THEN "tts" ELSE "llm"]))

\* the generation stream throws: the catch block of processWithLLM
streamThrows(m0, t) ==
  Bind(m0, LAMBDA m :
    setTask(emit(m, "error", m.tasks[t].sessionId, m.tasks[t].responseId), t, DoneTask))

\* synthesizeStream returns: the callback on success, then the code after it
synthesisReturns(m0, t, outcome) ==
  Bind(m0, LAMBDA m :
    LET task == m.tasks[t]
        m1 == IF outcome = "chunk" THEN onChunk(m, task.sessionId, task.responseId) ELSE m
    IN IF task.pc = "tts" THEN setTask(m1, t, [task EXCEPT !.pc = "llm"])
       ELSE verifyOrReturn(m1, t))

\* a finalization that stores the unsynthesized tail instead of the reply
verificationReturns_Tail(m0, t, outcome) ==
  Bind(m0, LAMBDA m :
    LET task == m.tasks[t]
        s == task.sessionId
        m1 == emit(m, "llm.end", s, task.responseId)
        m2 == [m1 EXCEPT !.arrays[task.history] =
                            Append(@, [role |-> "assistant",
                                       content |-> task.sentenceBuffer]),
                         !.conversationHistory[s] = task.history]
        m3 == IF task.isSpeaking THEN emit(m2, "tts.end", s, task.responseId) ELSE m2
    IN setTask(updateSessionState(m3, s, "idle"), t, DoneTask))

\* verification.verify returns or throws: lines 1044-1108
verificationReturns(m0, t, outcome) ==
  Bind(m0, LAMBDA m :
    LET task == m.tasks[t]
        s == task.sessionId
        verifiedResponse == IF outcome = "modified"
                            THEN task.fullResponse \o Disclaimer
                            ELSE task.fullResponse
        m1 == emit(m, "llm.end", s, task.responseId)
        m2 == [m1 EXCEPT !.arrays[task.history] =
                            Append(@, [role |-> "assistant", content |-> verifiedResponse]),
                         !.conversationHistory[s] = task.history]
        m3 == IF task.isSpeaking THEN emit(m2, "tts.end", s, task.responseId) ELSE m2
    IN setTask(updateSessionState(m3, s, "idle"), t, DoneTask))

(***************************************************************************)
(* Pipeline.processTranscript, up to the first await it reaches.           *)
(***************************************************************************)
\* lines 900-927: the path of a session that is not interrupted
transcriptTurn(m0, t, s, text, isFinal) ==
  Bind(m0, LAMBDA m :
    LET m1 == emit(m, IF isFinal THEN "transcript.final" ELSE "transcript.partial", s, 0)
    IN IF ~(isFinal /\ trim(text) # <<>>) THEN m1
       ELSE Bind(checkTranscript(m1, text), LAMBDA c :
              Bind(IF c.detection.type = "wake"
                   THEN extractCommandAfterWakeWord(text, c.detection.word)
                   ELSE text, LAMBDA processText :
                IF c.detection.type = "wake" /\ processText = <<>> THEN c.m
                ELSE processWithLLM(updateSessionState(c.m, s, "processing"),
                                    t, s, processText))))

\* lines 886-898: the path of an interrupted session
transcriptResume(m0, t, s, text) ==
  Bind(m0, LAMBDA m :
    Bind(checkTranscript(m, text), LAMBDA c :
      Bind(extractCommandAfterWakeWord(text, c.detection.word), LAMBDA command :
        IF c.detection.type = "wake" /\ command # <<>>
        THEN processWithLLM(updateSessionState(c.m, s, "processing"), t, s, command)
        ELSE c.m)))

processTranscript(m0, t, s, text, isFinal) ==
  Bind(m0, LAMBDA m :
    IF ~hasSession(m, s) THEN m
    ELSE IF stateOf(m, s) = "speaking"
    THEN Bind(checkTranscript(m, text), LAMBDA c :
           IF c.detection.type = "interrupt" THEN interrupt(c.m, s)
           ELSE transcriptTurn(c.m, t, s, text, isFinal))
    ELSE IF stateOf(m, s) = "interrupted" THEN transcriptResume(m, t, s, text)
    ELSE transcriptTurn(m, t, s, text, isFinal))

\* a continuation that passes whatever transcribeAudio returned on
transcriptionReturns_NoEmptyCheck(m0, t, transcript) ==
  Bind(m0, LAMBDA m :
    processTranscript(setTask(m, t, DoneTask), t, m.tasks[t].sessionId,
                      transcript, TRUE))

\* processAudioEnd after transcribeAudio returned; <<>> stands for null or ""
transcriptionReturns(m0, t, transcript) ==
  Bind(m0, LAMBDA m :
    LET s == m.tasks[t].sessionId
        m1 == setTask(m, t, DoneTask)
    IN IF trim(transcript) # <<>>
       THEN processTranscript(m1, t, s, transcript, TRUE)
       ELSE updateSessionState(m1, s, "idle"))

(***************************************************************************)
(* Actions.                                                                *)
(***************************************************************************)
FreeTasks == {t \in TaskIds : tasks[t].pc = "free"}

\* the slot of the next handler invocation
NextTask == CHOOSE t \in FreeTasks : \A u \in FreeTasks : t <= u

\* WebSocketHandler.handleConnection -> SessionManager.createSession
HandleConnection(s) ==
  /\ s \notin mintedSessionIds
  /\ mintedSessionIds' = mintedSessionIds \cup {s}
  /\ Commit([Cur EXCEPT !.sessions[s] = "idle"])

\* WebSocketHandler.handleDisconnect -> SessionManager.endSession
HandleDisconnect(s) ==
  /\ sessions[s] # "absent"
  /\ Commit([Cur EXCEPT !.sessions[s] = "absent"])
  /\ UNCHANGED mintedSessionIds

\* handleMessage, binary frame
AudioFrame(s, size) ==
  /\ Len(audioBuffers[s]) < MaxFrames
  /\ Commit(processAudioChunk(Cur, s, size))
  /\ UNCHANGED mintedSessionIds

\* handleJsonMessage 'audio.end'
AudioEnd(s) ==
  /\ FreeTasks # {}
  /\ Commit(processAudioEnd(Cur, NextTask, s))
  /\ UNCHANGED mintedSessionIds

\* handleJsonMessage 'transcript'
TranscriptMessage(s, text, isFinal) ==
  /\ FreeTasks # {}
  /\ Commit(processTranscript(Cur, NextTask, s, text, isFinal))
  /\ UNCHANGED mintedSessionIds

\* handleJsonMessage 'interrupt'
InterruptMessage(s) ==
  /\ Commit(interrupt(Cur, s))
  /\ UNCHANGED mintedSessionIds

TranscriptionReturns(t, transcript) ==
  /\ tasks[t].pc = "transcribing"
  /\ Commit(transcriptionReturns(Cur, t, transcript))
  /\ UNCHANGED mintedSessionIds

StreamChunk(t, chunk) ==
  /\ tasks[t].pc = "llm"
  /\ tasks[t].yielded < MaxTokens
  /\ Commit(streamChunk(Cur, t, chunk))
  /\ UNCHANGED mintedSessionIds

StreamEnd(t) ==
  /\ tasks[t].pc = "llm"
  /\ Commit(streamEnd(Cur, t))
  /\ UNCHANGED mintedSessionIds

StreamThrows(t) ==
  /\ tasks[t].pc = "llm"
  /\ Commit(streamThrows(Cur, t))
  /\ UNCHANGED mintedSessionIds

SynthesisReturns(t, outcome) ==
  /\ tasks[t].pc \in {"tts", "ttsTail"}
  /\ Commit(synthesisReturns(Cur, t, outcome))
  /\ UNCHANGED mintedSessionIds

VerificationReturns(t, outcome) ==
  /\ tasks[t].pc = "verify"
  /\ Commit(verificationReturns(Cur, t, outcome))
  /\ UNCHANGED mintedSessionIds

\* more than debounceMs passes since the last detection
DebounceElapses ==
  /\ lastDetection = "recent"
  /\ Commit([Cur EXCEPT !.lastDetection = "none"])
  /\ UNCHANGED mintedSessionIds

Next ==
  \/ \E s \in SessionIds : HandleConnection(s)
  \/ \E s \in SessionIds : HandleDisconnect(s)
  \/ \E s \in SessionIds, size \in FrameSizes : AudioFrame(s, size)
  \/ \E s \in SessionIds : AudioEnd(s)
  \/ \E s \in SessionIds, text \in Transcripts, isFinal \in BOOLEAN :
       TranscriptMessage(s, text, isFinal)
  \/ \E s \in SessionIds : InterruptMessage(s)
  \/ \E t \in TaskIds, transcript \in Transcripts \cup {<<>>} :
       TranscriptionReturns(t, transcript)
  \/ \E t \in TaskIds, chunk \in Tokens : StreamChunk(t, chunk)
  \/ \E t \in TaskIds : StreamEnd(t)
  \/ \E t \in TaskIds : StreamThrows(t)
  \/ \E t \in TaskIds, outcome \in TtsOutcomes : SynthesisReturns(t, outcome)
  \/ \E t \in TaskIds, outcome \in VerifyOutcomes : VerificationReturns(t, outcome)
  \/ DebounceElapses

Spec == Init /\ [][Next]_vars

(***************************************************************************)
(* Replies of several tokens: text turns only, no audio intake.            *)
(***************************************************************************)
\* tokens one chatStream may yield under SpecReply
MaxReplyTokens == 2

\* one iteration of the for-await loop of a stream of at most limit chunks
\* a sentence loop that does not await streamSentenceToTTS: the stream is
\* consumed while a synthesis call is still outstanding
StreamChunkWithin_NoAwait(t, chunk, limit) ==
  /\ tasks[t].pc \in {"llm", "tts"}
  /\ tasks[t].yielded < limit
  /\ Commit(streamChunk(Cur, t, chunk))
  /\ UNCHANGED mintedSessionIds

StreamChunkWithin(t, chunk, limit) ==
  /\ tasks[t].pc = "llm"
  /\ tasks[t].yielded < limit
  /\ Commit(streamChunk(Cur, t, chunk))
  /\ UNCHANGED mintedSessionIds

NextReply ==
  \/ \E s \in SessionIds : HandleConnection(s)
  \/ \E s \in SessionIds : HandleDisconnect(s)
  \/ \E s \in SessionIds, isFinal \in BOOLEAN : TranscriptMessage(s, T_plain, isFinal)
  \/ \E s \in SessionIds : InterruptMessage(s)
  \/ \E t \in TaskIds, chunk \in Tokens : StreamChunkWithin(t, chunk, MaxReplyTokens)
  \/ \E t \in TaskIds : StreamEnd(t)
  \/ \E t \in TaskIds : StreamThrows(t)
  \/ \E t \in TaskIds, outcome \in TtsOutcomes : SynthesisReturns(t, outcome)
  \/ \E t \in TaskIds, outcome \in VerifyOutcomes : VerificationReturns(t, outcome)

SpecReply == Init /\ [][NextReply]_vars

(***************************************************************************)
(* The sentence loop on chunks that hold whole sentences: text turns that  *)
(* nothing interrupts.                                                     *)
(***************************************************************************)
\* chunks one chatStream may yield under SpecSentences
MaxSentenceTokens == 2

\* chunks of the generation stream: a word, a sentence with its blank, a
\* chunk holding two sentences, an ellipsis, a line break
SentenceTokens ==
  { <<"a">>, <<"b", ".", " ">>, <<"c", ".", "d", ".">>, <<".", ".">>, <<"\n">> }

NextSentences ==
  \/ \E s \in SessionIds : HandleConnection(s)
  \/ \E s \in SessionIds : TranscriptMessage(s, T_plain, TRUE)
  \/ \E t \in TaskIds, chunk \in SentenceTokens :
       StreamChunkWithin(t, chunk, MaxSentenceTokens)
  \/ \E t \in TaskIds : StreamEnd(t)
  \/ \E t \in TaskIds, outcome \in TtsOutcomes : SynthesisReturns(t, outcome)
  \/ \E t \in TaskIds, outcome \in VerifyOutcomes : VerificationReturns(t, outcome)

SpecSentences == Init /\ [][NextSentences]_vars

(***************************************************************************)
(* The wake-word service alone, with its clock: calls of checkTranscript   *)
(* at the times the clock shows.                                           *)
(***************************************************************************)
pipelineVars ==
  <<sessions, mintedSessionIds, audioBuffers, activeResponseIds, arrays,
    conversationHistory, lastDetection, tasks, emitted, transitions,
    interruptReturned, interruptedResponses>>

InitWake ==
  /\ InitPipeline
  /\ InitWakeWord
  /\ nextText \in WakeTexts
  /\ InitStore
  /\ InitShared
  /\ InitServices

\* time passes between two calls
ClockAdvances ==
  /\ now < MaxNowMs
  /\ now' = now + ClockStepMs
  /\ UNCHANGED <<lastDetectionTime, nextText, returned, lastPositive>>
  /\ UNCHANGED pipelineVars
  /\ UNCHANGED storeVars
  /\ UNCHANGED serviceVars
  /\ UNCHANGED sharedVars

\* less than debounceMs have passed since a call returned a classification
InWindow == lastPositive # -1 /\ now - lastPositive < debounceMs

\* one call checkTranscript(nextText); the caller then has the next text.
\* The history records the call, whether it was made inside the window of
\* the last classification, and whether a call inside that window came
\* before it.
CheckTranscriptCall ==
  /\ \E r \in {checkTranscriptAt(lastDetectionTime, now, nextText)} :
       /\ lastDetectionTime' = r.lastDetectionTime
       /\ returned' =
            [type |-> r.detection.type, word |-> r.detection.word,
             text |-> nextText, at |-> now, inWindow |-> InWindow,
             afterSuppressed |->
               returned.type = "none" /\ (returned.inWindow \/ returned.afterSuppressed)]
       /\ lastPositive' = IF r.detection.type # "none" THEN now ELSE lastPositive
  /\ nextText' \in WakeTexts
  /\ UNCHANGED now
  /\ UNCHANGED pipelineVars
  /\ UNCHANGED storeVars
  /\ UNCHANGED serviceVars

\* a call whose caller is not looked at
CheckTranscript ==
  /\ CheckTranscriptCall
  /\ UNCHANGED sharedVars

NextWake ==
  \/ ClockAdvances
  \/ CheckTranscript

SpecWake == InitWake /\ [][NextWake]_vars

(***************************************************************************)
(* The one WakeWordService of the process, called for the transcripts of   *)
(* several sessions.                                                       *)
(***************************************************************************)
\* processTranscript of session s calls services.wakeWord.checkTranscript(text)
CheckTranscriptOf(s, text) ==
  /\ \E r \in {checkTranscriptAt(lastDetectionTime, now, text)},
        o \in {checkTranscriptAt(callers.own[s], now, text)} :
       /\ lastDetectionTime' = r.lastDetectionTime
       /\ callers' = [session |-> s, text |-> text, actual |-> r.detection,
                      expected |-> o.detection,
                      own |-> [callers.own EXCEPT ![s] = o.lastDetectionTime]]
  /\ UNCHANGED <<now, nextText, returned, lastPositive, breaker, limiter>>
  /\ UNCHANGED pipelineVars
  /\ UNCHANGED storeVars
  /\ UNCHANGED serviceVars

NextCallers ==
  \/ ClockAdvances
  \/ \E s \in WakeSessions, text \in Transcripts : CheckTranscriptOf(s, text)

SpecCallers == Init /\ [][NextCallers]_vars

(***************************************************************************)
(* The session store alone: SessionManager with several sessions and the   *)
(* clock.                                                                  *)
(***************************************************************************)
\* session ids createSession may mint; the conversation minted with a
\* session carries the same token
StoreIds == {"u1", "u2"}

\* states updateSessionState is called with
StoreStates == {"listening", "idle"}

\* timeouts cleanupStaleSessions is called with, in milliseconds
Timeouts == {0, 500, 1000}

\* Map.has
storeHas(map, id) == \E i \in 1..Len(map) : map[i].id = id

\* SessionManager.createSession: both maps get a new entry
createSession(map, id, at) ==
  Append(map, [id |-> id, conversationId |-> id, state |-> "idle",
               startedAt |-> at, lastActivityAt |-> at])

\* SessionManager.updateSessionState on the map with timestamps
storeUpdateSessionState(map, id, newState, at) ==
  [i \in 1..Len(map) |->
     IF map[i].id = id
     THEN [map[i] EXCEPT !.state = newState, !.lastActivityAt = at]
     ELSE map[i]]

\* SessionManager.endSession on the map
endSession(map, id) ==
  IF storeHas(map, id) THEN SelectSeq(map, LAMBDA e : e.id # id) ELSE map

\* a sweep that also ends the sessions idle for exactly timeoutMs
RECURSIVE cleanupStaleSessions_AtLeast(_, _, _, _, _)
cleanupStaleSessions_AtLeast(map, entries, at, timeoutMs, count) ==
  IF entries = <<>> THEN [sessions |-> map, cleaned |-> count]
  ELSE IF at - Head(entries).lastActivityAt >= timeoutMs
  THEN cleanupStaleSessions_AtLeast(endSession(map, Head(entries).id), Tail(entries),
                                    at, timeoutMs, count + 1)
  ELSE cleanupStaleSessions_AtLeast(map, Tail(entries), at, timeoutMs, count)

\* SessionManager.cleanupStaleSessions: the loop over the entries still to
\* visit, with the map as it is and the count so far
RECURSIVE cleanupStaleSessions(_, _, _, _, _)
cleanupStaleSessions(map, entries, at, timeoutMs, count) ==
  IF entries = <<>> THEN [sessions |-> map, cleaned |-> count]
  ELSE IF at - Head(entries).lastActivityAt > timeoutMs
  THEN cleanupStaleSessions(endSession(map, Head(entries).id), Tail(entries),
                            at, timeoutMs, count + 1)
  ELSE cleanupStaleSessions(map, Tail(entries), at, timeoutMs, count)

wakeWordAndPipelineVars ==
  <<lastDetectionTime, nextText, returned, lastPositive, pipelineVars, serviceVars,
    sharedVars>>

CreateSession(id) ==
  /\ id \notin storeConversations
  /\ storeSessions' = createSession(storeSessions, id, now)
  /\ storeConversations' = storeConversations \cup {id}
  /\ UNCHANGED <<cleaned, now, wakeWordAndPipelineVars>>

UpdateSessionState(id, newState) ==
  /\ storeHas(storeSessions, id)
  /\ storeSessions' = storeUpdateSessionState(storeSessions, id, newState, now)
  /\ UNCHANGED <<storeConversations, cleaned, now, wakeWordAndPipelineVars>>

EndSession(id) ==
  /\ storeSessions' = endSession(storeSessions, id)
  /\ UNCHANGED <<storeConversations, cleaned, now, wakeWordAndPipelineVars>>

CleanupStaleSessions(timeoutMs) ==
  /\ \E r \in {cleanupStaleSessions(storeSessions, storeSessions, now, timeoutMs, 0)} :
       /\ storeSessions' = r.sessions
       /\ cleaned' = r.cleaned
  /\ UNCHANGED <<storeConversations, now, wakeWordAndPipelineVars>>

NextStore ==
  \/ ClockAdvances
  \/ \E id \in StoreIds : CreateSession(id)
  \/ \E id \in StoreIds, newState \in StoreStates : UpdateSessionState(id, newState)
  \/ \E id \in StoreIds : EndSession(id)
  \/ \E timeoutMs \in Timeouts : CleanupStaleSessions(timeoutMs)

SpecStore == Init /\ [][NextStore]_vars

(***************************************************************************)
(* VerificationEngine.verify as a function of the claims extractClaims     *)
(* found and of the flattened context.  A claim or a snippet is given by   *)
(* its token set (tokenize); a number is the fraction num / den, and a     *)
(* fraction with den = 0 is what JavaScript computes for num / 0.          *)
(***************************************************************************)
\* claims one reply may hold
MaxClaims == 3
\* snippets one context may hold
MaxSnippets == 2

keyTerms ==
  {"error", "issue", "bug", "version", "update", "status", "count", "total",
   "name", "id"}

\* minConfidenceThreshold 0.6 as the fraction ThresholdNum / ThresholdDen
ThresholdNum == 6
ThresholdDen == 10

Fraction(n, d) == [num |-> n, den |-> d]

\* a > b on numbers that may be Infinity
Greater(a, b) ==
  IF a.den = 0 THEN b.den # 0
  ELSE IF b.den = 0 THEN FALSE
  ELSE a.num * b.den > b.num * a.den

\* a >= n / d for a finite n / d
AtLeast(a, n, d) == IF a.den = 0 THEN a.num > 0 ELSE a.num * d >= n * a.den

\* the claims extractClaims may return for a reply: the sentence, its token
\* set, and what isGeneralKnowledge says of it
ClaimInputs ==
  { [text |-> "status total", words |-> {"status", "total"}, general |-> FALSE],
    [text |-> "door open", words |-> {"door", "open"}, general |-> FALSE],
    [text |-> "hello there", words |-> {"hello", "there"}, general |-> TRUE],
    [text |-> "it is ok", words |-> {}, general |-> FALSE] }

\* the snippets flattenContext may return: the source label and the token set
SnippetInputs ==
  { [source |-> "github", words |-> {"status", "total"}],
    [source |-> "knowledge_base", words |-> {"door", "open", "wide", "now"}],
    [source |-> "github", words |-> {"door"}] }

RECURSIVE SeqsUpTo(_, _)
SeqsUpTo(S, n) ==
  IF n = 0 THEN {<<>>}
  ELSE SeqsUpTo(S, n - 1) \cup
       {Append(q, x) : q \in {r \in SeqsUpTo(S, n - 1) : Len(r) = n - 1}, x \in S}

\* the reply text, as one opaque element
ReplyText == <<"<reply>">>

\* intersection += keyTerms.includes(word) ? 2 : 1
RECURSIVE weightedIntersection(_, _)
weightedIntersection(claimWords, contextWords) ==
  IF claimWords = {} THEN 0
  ELSE LET word == CHOOSE w \in claimWords : TRUE
       IN (IF word \in contextWords THEN (IF word \in keyTerms THEN 2 ELSE 1) ELSE 0)
          + weightedIntersection(claimWords \ {word}, contextWords)

\* VerificationEngine.calculateSimilarity
engineSimilarity(claimWords, contextWords) ==
  IF claimWords = {} \/ contextWords = {} THEN Fraction(0, 1)
  ELSE LET intersection == weightedIntersection(claimWords, contextWords)
           union == Cardinality(claimWords) + Cardinality(contextWords) - intersection
       IN Fraction(intersection, union)

\* findBestMatch: the loop over the snippets still to visit
RECURSIVE findBestMatch(_, _, _)
findBestMatch(claimWords, contextTexts, best) ==
  IF contextTexts = <<>> THEN best
  ELSE LET ctx == Head(contextTexts)
           similarity == engineSimilarity(claimWords, ctx.words)
       IN findBestMatch(claimWords, Tail(contextTexts),
                        IF Greater(similarity, best.similarity)
                        THEN [found |-> TRUE, source |-> ctx.source,
                              similarity |-> similarity]
                        ELSE best)

NoMatch == [found |-> FALSE, source |-> "", similarity |-> Fraction(0, 1)]

\* one iteration of the loop of verifyClaims
verifyClaim(claim, contextTexts) ==
  LET match == findBestMatch(claim.words, contextTexts, NoMatch)
  IN IF match.found /\ AtLeast(match.similarity, 1, 2)
     THEN [text |-> claim.text, verified |-> TRUE,
           confidence |-> match.similarity, source |-> match.source]
     ELSE [text |-> claim.text, verified |-> claim.general,
           confidence |-> IF claim.general THEN Fraction(7, 10) ELSE Fraction(2, 10),
           source |-> IF claim.general THEN "general_knowledge" ELSE ""]

verifyClaims(claims, contextTexts) ==
  [i \in 1..Len(claims) |-> verifyClaim(claims[i], contextTexts)]

\* citations that name the source of every verified claim, repeats included
RECURSIVE generateCitations_NoDedup(_, _, _)
generateCitations_NoDedup(claims, seenSources, citations) ==
  IF claims = <<>> THEN citations
  ELSE LET claim == Head(claims)
       IN IF claim.source # "" /\ claim.verified
          THEN generateCitations_NoDedup(Tail(claims), seenSources \cup {claim.source},
                                         Append(citations, [source |-> claim.source,
                                                            verified |-> TRUE,
                                                            snippet |-> claim.text]))
          ELSE generateCitations_NoDedup(Tail(claims), seenSources, citations)

\* generateCitations: the loop over the claims still to visit
RECURSIVE generateCitations(_, _, _)
generateCitations(claims, seenSources, citations) ==
  IF claims = <<>> THEN citations
  ELSE LET claim == Head(claims)
       IN IF claim.source # "" /\ claim.verified /\ claim.source \notin seenSources
          THEN generateCitations(Tail(claims), seenSources \cup {claim.source},
                                 Append(citations, [source |-> claim.source,
                                                    verified |-> TRUE,
                                                    snippet |-> claim.text]))
          ELSE generateCitations(Tail(claims), seenSources, citations)

\* VerificationEngine.modifyResponse
engineModifyResponse(response, claims) ==
  IF \A i \in 1..Len(claims) : claims[i].verified THEN response
  ELSE response \o Disclaimer

\* VerificationEngine.verify after extractClaims; null is <<>>
engineVerify(responseText, claims, contextTexts) ==
  IF Len(claims) = 0
  THEN [verified |-> TRUE, confidence |-> Fraction(1, 1), claims |-> <<>>,
        citations |-> <<>>, warnings |-> <<>>, modifiedResponse |-> <<>>]
  ELSE Bind(verifyClaims(claims, contextTexts), LAMBDA verifiedClaims :
         LET verifiedCount ==
               Cardinality({i \in 1..Len(verifiedClaims) : verifiedClaims[i].verified})
             overallConfidence == Fraction(verifiedCount, Len(verifiedClaims))
             verified == AtLeast(overallConfidence, ThresholdNum, ThresholdDen)
         IN [verified |-> verified,
             confidence |-> overallConfidence,
             claims |-> verifiedClaims,
             citations |-> generateCitations(verifiedClaims, {}, <<>>),
             warnings |-> [i \in 1..(Len(verifiedClaims) - verifiedCount) |->
                             SelectSeq(verifiedClaims, LAMBDA c : ~c.verified)[i].text],
             modifiedResponse |-> IF verified THEN <<>>
                                  ELSE engineModifyResponse(responseText, verifiedClaims)])

allButEngineVars ==
  <<pipelineVars, wakeVars, storeVars, client, upstream, sharedVars>>

InitEngine ==
  /\ InitPipeline
  /\ InitWakeWord
  /\ nextText = <<>>
  /\ InitStore
  /\ InitShared
  /\ client = NoClientCall
  /\ upstream = NoRequest
  /\ engineCall \in {[claims |-> c, context |-> k, done |-> FALSE] :
                       c \in SeqsUpTo(ClaimInputs, MaxClaims),
                       k \in SeqsUpTo(SnippetInputs, MaxSnippets)}

\* the call returns
EngineVerify ==
  /\ ~engineCall.done
  /\ engineCall' = [claims |-> engineCall.claims, context |-> engineCall.context,
                    done |-> TRUE,
                    result |-> engineVerify(ReplyText, engineCall.claims,
                                            engineCall.context)]
  /\ UNCHANGED allButEngineVars

NextEngine == EngineVerify

SpecEngine == InitEngine /\ [][NextEngine]_vars

(***************************************************************************)
(* VerificationClient.verify: one call, with the built-in engine and the   *)
(* external service each succeeding or failing when asked.                 *)
(***************************************************************************)
\* attempts the model follows one call for
MaxVerifyAttempts == 8

\* what a verifier that succeeds may answer
VerifierAnswers == {"verified", "modified", "unverified"}

allButClientVars ==
  <<pipelineVars, wakeVars, storeVars, engineCall, upstream, sharedVars>>

\* a client as constructed (engine is set when an apiKey was given) and a
\* call of verify that has not run yet
InitClient ==
  /\ InitPipeline
  /\ InitWakeWord
  /\ nextText = <<>>
  /\ InitStore
  /\ InitShared
  /\ engineCall = NoEngineCall
  /\ upstream = NoRequest
  /\ client \in {[pc |-> "called", enabled |-> e, useBuiltInEngine |-> b,
                  engine |-> g, useLLMVerification |-> l, attempts |-> 0,
                  result |-> "none"] :
                   e \in BOOLEAN, b \in BOOLEAN, g \in BOOLEAN, l \in BOOLEAN}

\* verifyWithBuiltInEngine up to its await of the engine
verifyWithBuiltInEngine(c) ==
  IF ~c.engine THEN [c EXCEPT !.pc = "external", !.attempts = @ + 1]
  ELSE [c EXCEPT !.pc = IF c.useLLMVerification THEN "engineLLM" ELSE "engine",
                 !.attempts = @ + 1]

\* verifyWithExternalService up to its await of fetch
verifyWithExternalService(c) ==
  [c EXCEPT !.pc = "external", !.attempts = @ + 1]

\* VerificationClient.verify up to the first await
clientVerify(c) ==
  IF ~c.enabled THEN [c EXCEPT !.pc = "returned", !.result = "disabled"]
  ELSE IF c.useBuiltInEngine /\ c.engine THEN verifyWithBuiltInEngine(c)
  ELSE verifyWithExternalService(c)

\* the catch block of verifyWithExternalService
externalFails(c) ==
  IF c.engine THEN verifyWithBuiltInEngine(c)
  ELSE [c EXCEPT !.pc = "returned", !.result = "unavailable"]

ClientVerify ==
  /\ client.pc = "called"
  /\ client' = clientVerify(client)
  /\ UNCHANGED allButClientVars

\* engine.verify or engine.verifyWithLLM resolves
EngineAnswers(answer) ==
  /\ client.pc \in {"engine", "engineLLM"}
  /\ client' = [client EXCEPT !.pc = "returned", !.result = answer]
  /\ UNCHANGED allButClientVars

\* engine.verify or engine.verifyWithLLM rejects: the catch block
EngineFails ==
  /\ client.pc \in {"engine", "engineLLM"}
  /\ client.attempts < MaxVerifyAttempts
  /\ client' = verifyWithExternalService(client)
  /\ UNCHANGED allButClientVars

\* the external service answers with an ok response
ExternalAnswers(answer) ==
  /\ client.pc = "external"
  /\ client' = [client EXCEPT !.pc = "returned", !.result = answer]
  /\ UNCHANGED allButClientVars

\* fetch rejects or the response is not ok
ExternalFails ==
  /\ client.pc = "external"
  /\ client.attempts < MaxVerifyAttempts \/ ~client.engine
  /\ client' = externalFails(client)
  /\ UNCHANGED allButClientVars

NextClient ==
  \/ ClientVerify
  \/ \E answer \in VerifierAnswers : EngineAnswers(answer)
  \/ EngineFails
  \/ \E answer \in VerifierAnswers : ExternalAnswers(answer)
  \/ ExternalFails

SpecClient == InitClient /\ [][NextClient]_vars

(***************************************************************************)
(* One upstream request of a turn: the transcription request of            *)
(* Pipeline.transcribeAudio or the synthesis request of                    *)
(* TTSService.synthesizeStream, with the responses it meets.               *)
(***************************************************************************)
\* the options synthesizeStream passes to withRetry, and withRetry's default
\* multiplier
maxAttempts == 3
initialDelayMs == 1000
maxDelayMs == 5000
backoffMultiplier == 2

RequestKinds == {"transcription", "synthesis"}

\* HTTP statuses of a response; 0 stands for no response (fetch rejects or
\* the 30 s timeout fires)
Statuses == {0, 200, 400, 404, 429, 500, 503}

RECURSIVE Pow(_, _)
Pow(b, e) == IF e = 0 THEN 1 ELSE b * Pow(b, e - 1)

\* Math.min(initialDelayMs * Math.pow(backoffMultiplier, attempt - 1), maxDelayMs)
backoffDelay(attempt) ==
  LET d == initialDelayMs * Pow(backoffMultiplier, attempt - 1)
  IN IF d < maxDelayMs THEN d ELSE maxDelayMs

\* the statuses for which the fetch callback throws a RetryableError
throwsRetryable(status) == status >= 500 \/ status = 429

\* withRetry around the synthesis fetch: one attempt has got its response
synthesisResponds(u, status) ==
  IF status = 200 THEN [u EXCEPT !.pc = "returned", !.statuses = Append(@, status)]
  ELSE IF u.attempt < maxAttempts /\ throwsRetryable(status)
  THEN [u EXCEPT !.pc = "sleeping", !.statuses = Append(@, status),
                 !.delays = Append(@, backoffDelay(u.attempt))]
  ELSE [u EXCEPT !.pc = "failed", !.statuses = Append(@, status)]

\* transcribeAudio: a plain fetch inside try / catch
transcriptionResponds(u, status) ==
  IF status = 200 THEN [u EXCEPT !.pc = "returned", !.statuses = Append(@, status)]
  ELSE [u EXCEPT !.pc = "failed", !.statuses = Append(@, status)]

allButUpstreamVars ==
  <<pipelineVars, wakeVars, storeVars, engineCall, client, sharedVars>>

\* a request that has just been sent for the first time
InitUpstream ==
  /\ InitPipeline
  /\ InitWakeWord
  /\ nextText = <<>>
  /\ InitStore
  /\ InitShared
  /\ engineCall = NoEngineCall
  /\ client = NoClientCall
  /\ upstream \in {[pc |-> "waiting", kind |-> k, attempt |-> 1,
                    statuses |-> <<>>, delays |-> <<>>] : k \in RequestKinds}

TranscriptionResponds(status) ==
  /\ upstream.pc = "waiting"
  /\ upstream.kind = "transcription"
  /\ upstream' = transcriptionResponds(upstream, status)
  /\ UNCHANGED allButUpstreamVars

SynthesisResponds(status) ==
  /\ upstream.pc = "waiting"
  /\ upstream.kind = "synthesis"
  /\ upstream' = synthesisResponds(upstream, status)
  /\ UNCHANGED allButUpstreamVars

\* sleep(delay) is over: the loop of withRetry makes the next attempt
SleepEnds ==
  /\ upstream.pc = "sleeping"
  /\ upstream' = [upstream EXCEPT !.pc = "waiting", !.attempt = @ + 1]
  /\ UNCHANGED allButUpstreamVars

NextUpstream ==
  \/ \E status \in Statuses : TranscriptionResponds(status)
  \/ \E status \in Statuses : SynthesisResponds(status)
  \/ SleepEnds

SpecUpstream == InitUpstream /\ [][NextUpstream]_vars

(***************************************************************************)
(* CircuitBreaker, with the clock: execute calls of several callers, whose *)
(* wrapped calls resolve in any order.                                     *)
(***************************************************************************)
\* the clock of the breaker's runs
BreakerStepMs == 15000
MaxBreakerNowMs == 60000

\* failures one run records
MaxFailureCount == 7

\* CircuitBreaker.close
close(b) == [b EXCEPT !.state = "closed", !.failureCount = 0, !.lastFailureTime = 0]

\* CircuitBreaker.recordFailure at time at
recordFailure(b, at) ==
  [b EXCEPT !.failureCount = @ + 1,
            !.lastFailureTime = at,
            !.state = IF b.failureCount + 1 >= failureThreshold THEN "open" ELSE @]

\* execute up to its await of fn(): the open check, then the wrapped call is
\* invoked, or the call is rejected with the breaker's own error
execute(b, c, at) ==
  LET goesHalfOpen == b.state = "open" /\ at - b.lastFailureTime >= resetTimeoutMs
      rejects == b.state = "open" /\ ~goesHalfOpen
      step == [op |-> "execute", call |-> c, invoked |-> ~rejects,
               stateBefore |-> b.state,
               probePending |-> b.probe \in b.pending,
               wasProbe |-> goesHalfOpen,
               sinceFailure |-> at - b.lastFailureTime]
  IN IF rejects THEN [b EXCEPT !.step = step]
     ELSE [b EXCEPT !.state = IF goesHalfOpen THEN "half-open" ELSE @,
                    !.pending = @ \cup {c},
                    !.probe = IF goesHalfOpen THEN c ELSE @,
                    !.step = step]

\* the history of a call whose wrapped call has settled
settled(b, c, op) ==
  [b EXCEPT !.pending = @ \ {c},
            !.probe = IF b.probe = c THEN 0 ELSE @,
            !.consecutive = IF op = "success" THEN 0 ELSE @ + 1,
            !.step = [op |-> op, call |-> c, invoked |-> TRUE,
                      stateBefore |-> b.state,
                      probePending |-> b.probe \in b.pending,
                      wasProbe |-> b.probe = c, sinceFailure |-> 0]]

\* the wrapped call of c resolves: the rest of the try block
fnResolves(b, c) ==
  IF b.state = "half-open" THEN close(settled(b, c, "success"))
  ELSE settled(b, c, "success")

\* the wrapped call of c rejects: the catch block
fnRejects(b, c, at) == recordFailure(settled(b, c, "failure"), at)

allButBreakerVars ==
  <<pipelineVars, lastDetectionTime, nextText, returned, lastPositive, storeVars,
    serviceVars, limiter, callers>>

Execute(c) ==
  /\ c \notin breaker.pending
  /\ breaker' = execute(breaker, c, now)
  /\ UNCHANGED <<now, allButBreakerVars>>

FnResolves(c) ==
  /\ c \in breaker.pending
  /\ breaker' = fnResolves(breaker, c)
  /\ UNCHANGED <<now, allButBreakerVars>>

FnRejects(c) ==
  /\ c \in breaker.pending
  /\ breaker.failureCount < MaxFailureCount
  /\ breaker' = fnRejects(breaker, c, now)
  /\ UNCHANGED <<now, allButBreakerVars>>

\* time passes
BreakerClockAdvances ==
  /\ now < MaxBreakerNowMs
  /\ now' = now + BreakerStepMs
  /\ UNCHANGED <<breaker, allButBreakerVars>>

NextBreaker ==
  \/ \E c \in CallIds : Execute(c)
  \/ \E c \in CallIds : FnResolves(c)
  \/ \E c \in CallIds : FnRejects(c)
  \/ BreakerClockAdvances

SpecBreaker == Init /\ [][NextBreaker]_vars

(***************************************************************************)
(* RateLimiter, with the clock: acquire() calls of several callers.        *)
(***************************************************************************)
\* the clock of the limiter's runs
LimiterStepMs == 600
MaxLimiterNowMs == 2400

\* one token, in the unit tokens is kept in
OneToken == intervalMs

\* RateLimiter.refill at time at
refill(l, at) ==
  LET tokensToAdd == (at - l.lastRefillTime) * tokensPerInterval
      maxTokens == burstSize * intervalMs
  IN [l EXCEPT !.tokens = IF @ + tokensToAdd < maxTokens THEN @ + tokensToAdd
                           ELSE maxTokens,
               !.lastRefillTime = at]

\* calculateWaitTime(1) in milliseconds
calculateWaitTime(l) == (OneToken - l.tokens) \div tokensPerInterval

\* acquire() up to its return or its sleep
acquire(l0, c, at) ==
  Bind(refill(l0, at), LAMBDA l :
    IF l.tokens >= OneToken THEN [l EXCEPT !.tokens = @ - OneToken]
    ELSE [l EXCEPT !.wakeAt[c] = at + calculateWaitTime(l)])

\* acquire() after its sleep
acquireResumes(l0, c, at) ==
  Bind(refill(l0, at), LAMBDA l :
    [l EXCEPT !.tokens = @ - OneToken, !.wakeAt[c] = -1])

allButLimiterVars ==
  <<pipelineVars, lastDetectionTime, nextText, returned, lastPositive, storeVars,
    serviceVars, breaker, callers>>

Acquire(c) ==
  /\ limiter.wakeAt[c] = -1
  /\ limiter' = acquire(limiter, c, now)
  /\ UNCHANGED <<now, allButLimiterVars>>

\* the timer of sleep(waitTime) fires, at its time or later
AcquireResumes(c) ==
  /\ limiter.wakeAt[c] # -1
  /\ now >= limiter.wakeAt[c]
  /\ limiter' = acquireResumes(limiter, c, now)
  /\ UNCHANGED <<now, allButLimiterVars>>

LimiterClockAdvances ==
  /\ now < MaxLimiterNowMs
  /\ now' = now + LimiterStepMs
  /\ UNCHANGED <<limiter, allButLimiterVars>>

NextLimiter ==
  \/ \E c \in CallIds : Acquire(c)
  \/ \E c \in CallIds : AcquireResumes(c)
  \/ LimiterClockAdvances

SpecLimiter == Init /\ [][NextLimiter]_vars

(***************************************************************************)
(* Properties.                                                             *)
(***************************************************************************)
\* the events of one type among those the last step emitted
EmittedOf(types) == {i \in 1..Len(emitted) : emitted[i].type \in types}

\* session s has a turn between llm.start and its end
TurnInFlight(s) == inFlight(Cur, s) # {}

\* C1: an interrupt control message that arrives while a turn of a live, not
\* yet interrupted session is generating or synthesizing always takes effect:
\* the session becomes interrupted and session.interrupt is emitted.
C1_InterruptAlwaysTakesEffect ==
  [][\A s \in SessionIds :
       (/\ InterruptMessage(s)
        /\ sessions[s] \notin {"absent", "interrupted"}
        /\ TurnInFlight(s))
       => /\ sessions'[s] = "interrupted"
          /\ \E i \in 1..Len(emitted') : emitted'[i].type = "session.interrupt"]_vars

\* C2: for every session at most one generation is in flight at any instant.
C2_SingleFlight ==
  \A s \in SessionIds : Cardinality(inFlight(Cur, s)) <= 1

\* C3: once interrupt has returned true, no tts.chunk of a response that was
\* in flight at that interrupt is ever emitted.
C3_NoChunkOfInterruptedResponse ==
  \A i \in EmittedOf({"tts.chunk"}) : emitted[i].responseId \notin interruptedResponses

TurnStep(t) ==
  \/ \E chunk \in Tokens : StreamChunk(t, chunk)
  \/ StreamEnd(t)
  \/ StreamThrows(t)
  \/ \E outcome \in TtsOutcomes : SynthesisReturns(t, outcome)
  \/ \E outcome \in VerifyOutcomes : VerificationReturns(t, outcome)

\* C5: a turn that was in flight at a successful interrupt afterwards emits no
\* llm.chunk, llm.end or tts.end, appends no message to a conversation and
\* does not change the session state.
C5_InterruptedTurnIsSilent ==
  [][\A t \in TaskIds :
       (t \in interruptedResponses /\ TurnStep(t))
       => /\ \A i \in 1..Len(emitted') :
               emitted'[i].type \notin {"llm.chunk", "llm.end", "tts.end"}
          /\ \A h \in TaskIds : Len(arrays'[h]) <= Len(arrays[h])
          /\ sessions' = sessions]_vars

\* the step delivers to s a transcript classified as wake whose command tail
\* is not empty, from the client or from the transcription upstream
WakeCommandArrives(s) ==
  \E text \in Transcripts :
    /\ classify(text).type = "wake"
    /\ extractCommandAfterWakeWord(text, classify(text).word) # <<>>
    /\ \/ \E isFinal \in BOOLEAN : TranscriptMessage(s, text, isFinal)
       \/ \E t \in TaskIds : tasks[t].sessionId = s /\ TranscriptionReturns(t, text)

\* C6: a session leaves the state interrupted only when a wake transcript
\* with a non-empty command tail arrives or when the session ends.
C6_LeavesInterruptedOnlyByWake ==
  [][\A s \in SessionIds :
       (sessions[s] = "interrupted" /\ sessions'[s] # "interrupted")
       => (sessions'[s] = "absent" \/ WakeCommandArrives(s))]_vars

\* C7: Pipeline.interrupt on a speaking session emits exactly tts.stop and
\* then session.interrupt with reason user; on a processing session exactly
\* session.interrupt; in both cases the state is interrupted afterwards.
C7_InterruptEvents ==
  [][\A s \in SessionIds :
       InterruptMessage(s) =>
         /\ sessions[s] = "speaking" =>
              /\ emitted' = <<Event("tts.stop", s, 0), Event("session.interrupt", s, 0)>>
              /\ emitted'[2].reason = "user"
              /\ sessions'[s] = "interrupted"
         /\ sessions[s] = "processing" =>
              /\ emitted' = <<Event("session.interrupt", s, 0)>>
              /\ emitted'[1].reason = "user"
              /\ sessions'[s] = "interrupted"]_vars

\* C7 witness: an interrupt of a speaking session has just returned true
C7_Witness ==
  \E s \in SessionIds :
    /\ interruptReturned = "true"
    /\ sessions[s] = "interrupted"
    /\ transitions = <<[sessionId |-> s, from |-> "speaking", to |-> "interrupted"]>>
    /\ Len(emitted) = 2

\* C8: interrupt on a session that is idle, listening, interrupted or absent
\* returns false, emits nothing and changes nothing.
C8_InterruptNoOp ==
  [][\A s \in SessionIds :
       (InterruptMessage(s) /\ sessions[s] \in {"absent", "idle", "listening", "interrupted"})
       => /\ interruptReturned' = "false"
          /\ emitted' = <<>>
          /\ UNCHANGED <<sessions, audioBuffers, activeResponseIds, arrays,
                         conversationHistory, tasks>>]_vars

\* C8 witness: an interrupt repeated on an interrupted session returned false
C8_Witness ==
  \E s \in SessionIds :
    /\ interruptReturned = "false"
    /\ sessions[s] = "interrupted"
    /\ emitted = <<>>

\* C9: a session enters interrupted only from processing or speaking, enters
\* speaking only from processing, and enters processing only from listening
\* or interrupted.
C9_StateReachability ==
  \A i \in 1..Len(transitions) :
    LET tr == transitions[i]
    IN tr.from # tr.to =>
         /\ tr.to = "interrupted" => tr.from \in {"processing", "speaking"}
         /\ tr.to = "speaking" => tr.from = "processing"
         /\ tr.to = "processing" => tr.from \in {"listening", "interrupted"}

\* C10: an audio frame that arrives while the session is processing or
\* speaking changes neither the audio buffer nor the session state.
C10_FrameDroppedDuringTurn ==
  [][\A s \in SessionIds, size \in FrameSizes :
       (AudioFrame(s, size) /\ sessions[s] \in {"processing", "speaking"})
       => UNCHANGED <<sessions, audioBuffers>>]_vars

\* the texts a stream of n chunks can add up to
RECURSIVE RepliesOf(_)
RepliesOf(n) ==
  IF n = 0 THEN {<<>>}
  ELSE {r \o chunk : r \in RepliesOf(n - 1), chunk \in Tokens}

\* the step appends an assistant message to the array h
AppendsAssistant(h) ==
  /\ Len(arrays'[h]) = Len(arrays[h]) + 1
  /\ arrays'[h][Len(arrays'[h])].role = "assistant"

\* C11: an assistant message is appended only by the step in which the
\* verification call of a turn returns or fails, and its text is that turn's
\* whole reply (every chunk its stream yielded) or that reply plus the
\* disclaimer.
C11_VerifiedReplyAppended ==
  [][\A h \in TaskIds :
       AppendsAssistant(h) =>
         \E t \in TaskIds, outcome \in VerifyOutcomes :
           /\ tasks[t].pc = "verify"
           /\ tasks[t].history = h
           /\ VerificationReturns(t, outcome)
           /\ tasks[t].fullResponse \in RepliesOf(tasks[t].yielded)
           /\ tasks[t].fullResponse # <<>>
           /\ arrays'[h][Len(arrays'[h])].content \in
                {tasks[t].fullResponse, tasks[t].fullResponse \o Disclaimer}]_vars

\* C11 witness: a reply of two chunks was stored in its rewritten form
C11_Witness ==
  \E h \in TaskIds :
    /\ Len(arrays[h]) = 2
    /\ arrays[h][2] = [role |-> "assistant",
                       content |-> <<"a", "b", ".">> \o Disclaimer]
    /\ EmittedOf({"llm.end"}) # {}

\* C12: in a turn that completes with no interrupt, every tts.chunk follows
\* the turn's tts.start, and the finishing step emits llm.end and then
\* tts.end and leaves the session idle.
C12_CompletedTurnOrder ==
  [][\A t \in TaskIds :
       (t \notin interruptedResponses /\ tasks[t].pc \in InFlightPcs
        /\ sessions[tasks[t].sessionId] \notin {"absent", "interrupted"})
       => /\ \A outcome \in TtsOutcomes :
               (/\ SynthesisReturns(t, outcome)
                /\ \E i \in 1..Len(emitted') : emitted'[i].type = "tts.chunk")
               => tasks[t].isSpeaking
          /\ \A outcome \in VerifyOutcomes :
               VerificationReturns(t, outcome)
               => /\ emitted' = <<Event("llm.end", tasks[t].sessionId, t),
                                  Event("tts.end", tasks[t].sessionId, t)>>
                  /\ sessions'[tasks[t].sessionId] = "idle"]_vars

\* the transcript, llm and tts events
TurnEventTypes ==
  {"transcript.partial", "transcript.final", "llm.start", "llm.chunk", "llm.end",
   "tts.start", "tts.chunk", "tts.stop", "tts.end"}

\* the step emits no transcript, llm or tts event
NoTurnEvent == \A i \in 1..Len(emitted') : emitted'[i].type \notin TurnEventTypes

C14_EmptyTranscriptionEndsIdle ==
  [][\A t \in TaskIds :
       (/\ tasks[t].pc = "transcribing"
        /\ TranscriptionReturns(t, <<>>)
        /\ sessions[tasks[t].sessionId] # "absent")
       => /\ sessions'[tasks[t].sessionId] = "idle"
          /\ NoTurnEvent
          /\ tasks' = [tasks EXCEPT ![t] = DoneTask]
          /\ activeResponseIds' = activeResponseIds
          /\ \A h \in TaskIds : Len(arrays'[h]) <= Len(arrays[h])]_vars

\* C14 witness: a transcription returned nothing and the session went from
\* processing to idle
C14_Witness ==
  \E s \in SessionIds, t \in TaskIds :
    /\ sessions[s] = "idle"
    /\ tasks[t].pc = "done"
    /\ transitions = <<[sessionId |-> s, from |-> "processing", to |-> "idle"]>>
    /\ emitted = <<>>

\* C15: a generation failure that ends the turn of a live, not interrupted
\* session is surfaced as an error event and leaves the session idle.
C15_FailureSurfacedAndIdle ==
  [][\A t \in TaskIds :
       (/\ tasks[t].pc = "llm"
        /\ StreamThrows(t)
        /\ sessions[tasks[t].sessionId] \notin {"absent", "interrupted"})
       => /\ \E i \in 1..Len(emitted') : emitted'[i].type = "error"
          /\ sessions'[tasks[t].sessionId] = "idle"]_vars

\* C16: when a turn ends and no other turn of its session is still running,
\* the session (if still connected) is idle or interrupted, never processing
\* or speaking.
C16_TurnEndsIdleOrInterrupted ==
  [][\A t \in TaskIds :
       (/\ tasks[t].pc \in InFlightPcs \cup {"transcribing"}
        /\ tasks'[t].pc = "done"
        /\ \A u \in TaskIds \ {t} :
             tasks'[u].pc \in InFlightPcs \cup {"transcribing"}
               => tasks'[u].sessionId # tasks[t].sessionId
        /\ sessions'[tasks[t].sessionId] # "absent")
       => sessions'[tasks[t].sessionId] \in {"idle", "interrupted"}]_vars

SynthesisPcs == {"tts", "ttsTail"}

\* C17: within one turn the sentences are synthesized one after the other.
\* While the synthesis call of a sentence is outstanding the turn does
\* nothing but wait for its return, the return does not itself start the
\* next synthesis, and a tts.chunk of the turn is emitted only by the return
\* of its outstanding call; so the chunks of sentence N precede the start of
\* the synthesis of sentence N+1.
C17_SentencesSerialized ==
  [][\A t \in TaskIds :
       /\ tasks[t].pc \in SynthesisPcs
            => \/ tasks'[t] = tasks[t]
               \/ /\ \E outcome \in TtsOutcomes : SynthesisReturns(t, outcome)
                  /\ tasks'[t].pc \notin SynthesisPcs
       /\ (\E i \in 1..Len(emitted') :
              emitted'[i].type = "tts.chunk" /\ emitted'[i].responseId = t)
            => /\ tasks[t].pc \in SynthesisPcs
               /\ SynthesisReturns(t, "chunk")]_vars

\* the synthesis of the second sentence of a reply has just returned a chunk
C17_Witness ==
  \E t \in TaskIds :
    /\ tasks[t].pc = "llm"
    /\ tasks[t].fullResponse = <<"b", ".", "b", ".">>
    /\ tasks[t].sentenceBuffer = <<>>
    /\ \E i \in 1..Len(emitted) :
         emitted[i].type = "tts.chunk" /\ emitted[i].responseId = t

\* the text contains one of the configured phrases, whatever its case
ContainsPhrase(text, phrases) ==
  \E k \in 1..Len(phrases) : includes(toLowerCase(text), toLowerCase(phrases[k]))

ContainsBoth(text) ==
  ContainsPhrase(text, interruptWords) /\ ContainsPhrase(text, wakeWords)

\* the call made in this step falls inside the debounce window
Suppressed == lastDetectionTime # -1 /\ now - lastDetectionTime < debounceMs

\* C18 as stated: every call of checkTranscript with a transcript that
\* contains both an interrupt phrase and a wake phrase returns an interrupt
\* classification.
C18_InterruptOverWake_AsStated ==
  [][(CheckTranscript /\ ContainsBoth(nextText))
       => returned'.type = "interrupt"]_vars

\* C18: a call of checkTranscript with a transcript that contains both an
\* interrupt phrase and a wake phrase never returns a wake, and returns an
\* interrupt classification unless it falls inside the debounce window of an
\* earlier detection, where it returns no classification.
C18_InterruptOverWake ==
  [][(CheckTranscript /\ ContainsBoth(nextText))
       => /\ returned'.type # "wake"
          /\ ~Suppressed => returned'.type = "interrupt"
          /\ Suppressed => returned'.type = "none"]_vars

\* "Jarvis wait", the one input with the word wait, was classified as an
\* interrupt although it starts with a wake phrase
C18_Witness ==
  /\ ContainsBoth(T_WakeWait)
  /\ returned.text = T_WakeWait
  /\ returned.type = "interrupt"
  /\ returned.word = <<"w","a","i","t">>

\* C19: a call of checkTranscript made less than debounceMs after a call
\* returned a classification returns none, and a call made debounceMs or more
\* after the last classification is classified as if no call had been
\* suppressed in between: suppressed calls do not extend the window.
C19_DebounceWindow ==
  [][CheckTranscript
       => /\ InWindow => (returned'.type = "none" /\ lastPositive' = lastPositive)
          /\ ~InWindow => \E d \in {classify(nextText)} :
                            returned'.type = d.type /\ returned'.word = d.word]_vars

\* a call returned a classification although a call before it, made since the
\* previous classification, was suppressed
C19_Witness ==
  /\ returned.type # "none"
  /\ returned.afterSuppressed
  /\ returned.at >= debounceMs

\* the user message with which the turn of task t has just entered generation
UserMessageOf(t) == arrays'[tasks'[t].history][Len(arrays'[tasks'[t].history])]

\* C20: when the final transcript "jarvis go" (wake phrase, then a command)
\* starts a turn, in whatever state the session is, and no earlier detection
\* is being debounced, the user message passed to generation is the command
\* "go", not the full transcript.
C20_CommandTailPassed ==
  [][\A t \in TaskIds :
       (/\ lastDetection = "none"
        /\ tasks[t].pc \in {"free", "transcribing"}
        /\ tasks'[t].pc = "llm"
        /\ \/ \E s \in SessionIds : TranscriptMessage(s, T_wakeCommand, TRUE)
           \/ TranscriptionReturns(t, T_wakeCommand))
       => UserMessageOf(t) = [role |-> "user", content |-> <<"g", "o">>]]_vars

\* the step interrupts the running turn of s and starts no generation
InterruptsRunningTurn(s) ==
  /\ sessions'[s] = "interrupted"
  /\ \E i, j \in 1..Len(emitted') :
       /\ i < j
       /\ emitted'[i].type = "tts.stop"
       /\ emitted'[j].type = "session.interrupt"
  /\ \A u \in TaskIds : tasks[u].pc \notin InFlightPcs => tasks'[u].pc \notin InFlightPcs

\* C21: while a turn of a live, not interrupted session is in flight and no
\* earlier detection is being debounced, the utterance "stop" interrupts the
\* turn and starts no generation, whether it arrives as a client transcript
\* message or as the transcription of buffered audio.
C21_InterruptPhraseInterrupts ==
  [][\A s \in SessionIds :
       (/\ TurnInFlight(s)
        /\ sessions[s] \notin {"absent", "interrupted"}
        /\ lastDetection = "none"
        /\ \/ \E isFinal \in BOOLEAN : TranscriptMessage(s, T_stop, isFinal)
           \/ \E t \in TaskIds : /\ tasks[t].sessionId = s
                                 /\ TranscriptionReturns(t, T_stop))
       => InterruptsRunningTurn(s)]_vars

\* C22: when a turn that reached generation ends, however it ends, the array
\* it appended its user message to is the stored history of its conversation
\* and has lost no message.
C22_UserMessageKept ==
  [][\A t \in TaskIds :
       (tasks[t].pc \in InFlightPcs /\ tasks'[t].pc = "done")
       => /\ conversationHistory'[tasks[t].sessionId] = tasks[t].history
          /\ Len(arrays'[tasks[t].history]) >= Len(arrays[tasks[t].history])
          /\ \E i \in 1..Len(arrays'[tasks[t].history]) :
               arrays'[tasks[t].history][i].role = "user"]_vars

\* lastActivityAt of s is written by updateSessionState and nowhere else
\* after creation: the step refreshes it exactly when it calls
\* updateSessionState for s
RefreshesLastActivity(s) ==
  \E i \in 1..Len(transitions') : transitions'[i].sessionId = s

\* C23: every audio frame that arrives for a live session refreshes the
\* session's lastActivityAt, whatever state the session is in.
C23_FrameRefreshesActivity ==
  [][\A s \in SessionIds, size \in FrameSizes :
       (AudioFrame(s, size) /\ sessions[s] # "absent")
       => RefreshesLastActivity(s)]_vars

\* C24: the audio buffer of a session is empty right after a successful
\* interrupt of the session and right after the session has ended.
C24_BufferClearedOnInterruptAndEnd ==
  [][\A s \in SessionIds :
       (\/ /\ interruptReturned' = "true"
           /\ sessions[s] # "interrupted"
           /\ sessions'[s] = "interrupted"
        \/ /\ sessions[s] # "absent"
           /\ sessions'[s] = "absent")
       => audioBuffers'[s] = <<>>]_vars

\* the entries of the store as a set, and the ids among them
EntriesOf(map) == {map[i] : i \in 1..Len(map)}

LiveIds(map) == {e.id : e \in EntriesOf(map)}

\* the sessions whose last activity is more than timeoutMs in the past
Stale(timeoutMs) ==
  {e \in EntriesOf(storeSessions) : now - e.lastActivityAt > timeoutMs}

\* C25: endSession(id) removes the entry of id and nothing else, keeps every
\* conversation, and changes nothing when id has no entry;
\* cleanupStaleSessions(t) removes exactly the sessions whose lastActivityAt
\* is more than t in the past, keeps all other entries and every conversation
\* as they are, and returns the number it removed.
C25_RemovalsAreExact ==
  [][/\ \A id \in StoreIds :
          EndSession(id)
          => /\ EntriesOf(storeSessions') = {e \in EntriesOf(storeSessions) : e.id # id}
             /\ storeConversations' = storeConversations
             /\ id \notin LiveIds(storeSessions) => storeSessions' = storeSessions
     /\ \A timeoutMs \in Timeouts :
          CleanupStaleSessions(timeoutMs)
          => /\ EntriesOf(storeSessions') = EntriesOf(storeSessions) \ Stale(timeoutMs)
             /\ cleaned' = Cardinality(Stale(timeoutMs))
             /\ storeConversations' = storeConversations]_vars

\* a sweep has just ended one of two sessions: the other, not active for
\* some time either, is kept, and both conversations are still there
C25_Witness ==
  /\ cleaned = 1
  /\ Len(storeSessions) = 1
  /\ storeConversations = StoreIds
  /\ now - storeSessions[1].lastActivityAt \in Timeouts \ {0}

\* the verified claims of a result, and the sources its citations name
VerifiedOf(result) == {i \in 1..Len(result.claims) : result.claims[i].verified}

\* C26: a verify call that has returned gives verified, confidence 1 and no
\* rewritten reply when there is no claim; otherwise its confidence is the
\* number of verified claims over the number of claims, it is verified
\* exactly when that ratio is at least 0.6, the reply is rewritten (reply
\* plus disclaimer) exactly when it is not verified, there is one warning per
\* unverified claim, every citation names the source of a verified claim and
\* no two citations name the same source.
C26_VerifyResult ==
  engineCall.done =>
    LET result == engineCall.result
        total == Len(result.claims)
        count == Cardinality(VerifiedOf(result))
    IN /\ total = Len(engineCall.claims)
       /\ total = 0 =>
            /\ result.verified
            /\ result.confidence = Fraction(1, 1)
            /\ result.modifiedResponse = <<>>
            /\ result.warnings = <<>>
            /\ result.citations = <<>>
       /\ total > 0 =>
            /\ result.confidence = Fraction(count, total)
            /\ result.verified <=> (ThresholdDen * count >= ThresholdNum * total)
            /\ result.modifiedResponse =
                 (IF result.verified THEN <<>> ELSE ReplyText \o Disclaimer)
            /\ Len(result.warnings) = total - count
            /\ \A i \in 1..Len(result.warnings) :
                 \E j \in 1..total : /\ ~result.claims[j].verified
                                     /\ result.claims[j].text = result.warnings[i]
            /\ \A i \in 1..Len(result.citations) :
                 \E j \in VerifiedOf(result) :
                   result.claims[j].source = result.citations[i].source
            /\ \A i, j \in 1..Len(result.citations) :
                 result.citations[i].source = result.citations[j].source => i = j

\* two of three claims verified, both from the same source: verified with
\* confidence 2/3, one warning, one citation, no rewritten reply
C26_Witness ==
  /\ engineCall.done
  /\ engineCall.result.confidence = Fraction(2, 3)
  /\ engineCall.result.verified
  /\ Len(engineCall.result.warnings) = 1
  /\ Len(engineCall.result.citations) = 1
  /\ engineCall.result.modifiedResponse = <<>>

\* C27: every claim confidence and the overall confidence of a verify call
\* that has returned is a finite number in [0, 1].
C27_ConfidenceInUnitInterval ==
  engineCall.done =>
    /\ engineCall.result.confidence.den > 0
    /\ engineCall.result.confidence.num <= engineCall.result.confidence.den
    /\ \A i \in 1..Len(engineCall.result.claims) :
         LET c == engineCall.result.claims[i].confidence
         IN c.den > 0 /\ 0 <= c.num /\ c.num <= c.den

\* C28: one call of VerificationClient.verify makes a bounded number of
\* verification attempts, whatever fails: it never reaches the number of
\* attempts the model follows it for.
C28_AttemptsBounded ==
  client.pc # "idle" => client.attempts < MaxVerifyAttempts

\* the status of the last response of the request
LastStatus == upstream.statuses[Len(upstream.statuses)]

\* C29: a transcription or synthesis request makes at most 3 attempts, makes
\* a further attempt only after a 5xx or 429 response and after a delay that
\* grows from attempt to attempt, and gives up on a 5xx or 429 response only
\* at the third attempt.
C29_RetriedOnServerErrors ==
  upstream.pc # "idle" =>
    /\ upstream.attempt <= 3
    /\ Len(upstream.delays) = (IF upstream.pc = "sleeping" THEN upstream.attempt
                                ELSE upstream.attempt - 1)
    /\ \A i \in 1..Len(upstream.delays) :
         /\ throwsRetryable(upstream.statuses[i])
         /\ i > 1 => upstream.delays[i] > upstream.delays[i - 1]
    /\ (upstream.pc = "failed" /\ throwsRetryable(LastStatus)) => upstream.attempt = 3

\* the positions of a turn at which its verification call has not returned
BeforeVerificationReturns == {"llm", "tts", "ttsTail", "verify"}

\* C30: a step that emits a tts.chunk of a turn is taken only after the
\* verification call of that turn has returned.
C30_VerifiedBeforePlayback ==
  [][\A t \in TaskIds :
       (\E i \in 1..Len(emitted') :
          emitted'[i].type = "tts.chunk" /\ emitted'[i].responseId = t)
       => tasks[t].pc \notin BeforeVerificationReturns]_vars

\* C31: whenever a turn is about to read the next token of its generation
\* stream, its sentence buffer holds no sentence terminator (. ! ? or
\* newline): every complete sentence has been split off
C31_NoSentenceLeftInBuffer ==
  \A t \in TaskIds :
    tasks[t].pc = "llm" => firstTerminator(tasks[t].sentenceBuffer) = 0

\* C32: every tts.chunk of a turn comes after that turn's tts.start, the
\* chunks of a tail synthesized by the end-of-stream flush included: a step
\* emits tts.chunk for a response only when the turn has emitted tts.start
\* (isSpeaking is set exactly where tts.start is emitted, and tts.end is
\* emitted exactly when it is set)
C32_ChunkAfterStart ==
  [][\A t \in TaskIds :
       (\E i \in 1..Len(emitted') :
          emitted'[i].type = "tts.chunk" /\ emitted'[i].responseId = t)
       => tasks[t].isSpeaking]_vars

\* the turns of session s that have emitted tts.start and are still running
StartedTurns(s) ==
  {t \in TaskIds : /\ tasks[t].pc \in InFlightPcs
                   /\ tasks[t].sessionId = s
                   /\ tasks[t].isSpeaking}

\* C33: a session is in state speaking only while a turn of it is running
\* that has emitted tts.start on its first complete sentence, and an
\* interrupt emits tts.stop only when such a turn was running
C33_SpeakingOnlyAfterStart ==
  [][\A s \in SessionIds :
       /\ sessions'[s] = "speaking" => StartedTurns(s)' # {}
       /\ (\E i \in 1..Len(emitted') :
             emitted'[i].type = "tts.stop" /\ emitted'[i].sessionId = s)
          => StartedTurns(s) # {}]_vars

\* C34: a failure that brings the count to failureThreshold leaves the
\* breaker open; an execute that finds it open less than resetTimeoutMs after
\* the last failure is rejected without invoking the wrapped call; the first
\* execute after that is invoked as the half-open probe; when the probe
\* succeeds the breaker is closed with a failure count of zero, and when it
\* fails the breaker is open
C34_BreakerCycle ==
  /\ (breaker.step.op = "failure" /\ breaker.failureCount >= failureThreshold)
       => breaker.state = "open"
  /\ (breaker.step.op = "execute" /\ breaker.step.stateBefore = "open")
       => IF breaker.step.wasProbe
          THEN /\ breaker.step.invoked
               /\ breaker.state = "half-open"
               /\ breaker.step.sinceFailure >= resetTimeoutMs
          ELSE /\ ~breaker.step.invoked
               /\ breaker.state = "open"
               /\ breaker.step.sinceFailure < resetTimeoutMs
  /\ (breaker.step.op = "success" /\ breaker.step.wasProbe)
       => breaker.state = "closed" /\ breaker.failureCount = 0
  /\ (breaker.step.op = "failure" /\ breaker.step.wasProbe)
       => breaker.state = "open"

\* C36: a call that succeeds while the breaker is closed leaves the failure
\* count at zero, and a failure opens a closed breaker only when it is at
\* least the failureThreshold-th failure in a row, with no success between
C36_SuccessResetsCount ==
  /\ (breaker.step.op = "success" /\ breaker.step.stateBefore = "closed")
       => breaker.failureCount = 0
  /\ (breaker.step.op = "failure" /\ breaker.step.stateBefore = "closed"
        /\ breaker.state = "open")
       => breaker.consecutive >= failureThreshold

\* C37: an execute made while the breaker is half-open and its probe is
\* still pending is rejected without invoking the wrapped call
C37_OneProbeInFlight ==
  (/\ breaker.step.op = "execute"
   /\ breaker.step.stateBefore = "half-open"
   /\ breaker.step.probePending)
    => ~breaker.step.invoked

\* C38: the token count of the limiter is never below zero and never above
\* the burst size
C38_TokensInRange ==
  /\ limiter.tokens >= 0
  /\ limiter.tokens <= burstSize * OneToken

\* C35: what checkTranscript returns for a transcript of one session is what
\* it would return had the transcripts of the other sessions never been
\* classified
C35_ClassificationPerSession ==
  callers.session # "none" => callers.actual = callers.expected

\* the session was created and has ended
Ended(s) == s \in mintedSessionIds /\ sessions[s] = "absent"

\* C39: a step taken after a session has ended emits no event carrying that
\* session id and appends no message to its conversation, whether or not a
\* turn of the session was in flight when it ended
C39_EndedSessionIsSilent ==
  [][\A s \in SessionIds :
       Ended(s) =>
         /\ \A i \in 1..Len(emitted') : emitted'[i].sessionId # s
         /\ conversationHistory'[s] = conversationHistory[s]
         /\ \A t \in TaskIds :
              (tasks[t].sessionId = s /\ tasks[t].history # 0)
                => Len(arrays'[tasks[t].history]) <= Len(arrays[tasks[t].history])]_vars

\* the text without its whitespace
RECURSIVE nonWhitespace(_)
nonWhitespace(text) ==
  IF text = <<>> THEN <<>>
  ELSE IF Head(text) \in Whitespace THEN nonWhitespace(Tail(text))
  ELSE <<Head(text)>> \o nonWhitespace(Tail(text))

\* the step completes turn t: its verification returns and it ends in idle
Completes(t) == tasks[t].pc = "verify" /\ tasks'[t].pc = "done"

\* C40: when a turn completes that no interrupt has hit, the texts it has
\* passed to streamSentenceToTTS, put together in the order of the calls,
\* are the generated reply up to whitespace
C40_ReplyDispatchedOnce ==
  [][\A t \in TaskIds :
       (Completes(t) /\ t \notin interruptedResponses)
         => nonWhitespace(tasks[t].dispatched) = nonWhitespace(tasks[t].fullResponse)]_vars

\* a reply of a two-sentence chunk and a sentence with a trailing blank has
\* been dispatched whole and awaits its verification
C40_Witness ==
  \E t \in TaskIds :
    /\ tasks[t].pc = "verify"
    /\ t \notin interruptedResponses
    /\ tasks[t].fullResponse = <<"c", ".", "d", ".", "b", ".", " ">>
    /\ tasks[t].dispatched = <<"c", ".", "d", ".", "b", ".">>

====
